---- MODULE Spec2Model ----
(***************************************************************************)
(* Batch translation pipeline of the CrewAI translation crew:              *)
(*   - TextCleaner.clean_translation_result          (utils.py)            *)
(*   - TranslationEngine.translate_batch and its parser/aligner            *)
(*   - BatchProcessor.process_paragraphs             (translation_engine)  *)
(*   - Config.load_config / AgentFactory.__init__    (configuration)       *)
(*   - DocumentWriter._update_paragraph_text         (document_io.py)      *)
(* A Python str is a sequence of one-character strings.                    *)
(***************************************************************************)
EXTENDS Integers, Sequences, FiniteSets, TLC

(***************************************************************************)
(* Python str primitives used by the code.                                 *)
(***************************************************************************)

\* str.strip() / \s : the whitespace characters
Whitespace == {" ", "\n", "\t", "\r"}

\* \d : the decimal digits
Digits == {"0", "1", "2", "3", "4", "5", "6", "7", "8", "9"}

UpperLetters ==
    <<"A", "B", "C", "D", "E", "F", "G", "H", "I", "J", "K", "L", "M",
      "N", "O", "P", "Q", "R", "S", "T", "U", "V", "W", "X", "Y", "Z">>

LowerLetters ==
    <<"a", "b", "c", "d", "e", "f", "g", "h", "i", "j", "k", "l", "m",
      "n", "o", "p", "q", "r", "s", "t", "u", "v", "w", "x", "y", "z">>

\* str.lower() on the upper-case letters
LowerOf ==
    [c \in {UpperLetters[k] : k \in 1..Len(UpperLetters)} |->
        LowerLetters[CHOOSE k \in 1..Len(UpperLetters) : UpperLetters[k] = c]]

\* str.lower() on one character
LowerChar(c) == IF c \in DOMAIN LowerOf THEN LowerOf[c] ELSE c

\* str.lower()
Lower(s) == [k \in 1..Len(s) |-> LowerChar(s[k])]

\* s[n:]
DropFirst(s, n) == SubSeq(s, n + 1, Len(s))

\* str.lstrip()
RECURSIVE LStrip(_)
LStrip(s) ==
    IF s # <<>> /\ s[1] \in Whitespace THEN LStrip(Tail(s)) ELSE s

\* str.rstrip()
RECURSIVE RStrip(_)
RStrip(s) ==
    IF s # <<>> /\ s[Len(s)] \in Whitespace
    THEN RStrip(SubSeq(s, 1, Len(s) - 1))
    ELSE s

\* str.strip()
Strip(s) == RStrip(LStrip(s))

\* str.startswith(p)
StartsWith(s, p) == Len(p) <= Len(s) /\ SubSeq(s, 1, Len(p)) = p

\* str.find(p, from): the least 0-based position >= from where p occurs in
\* s, or -1
RECURSIVE Find(_, _, _)
Find(s, p, from) ==
    IF from + Len(p) > Len(s) THEN -1
    ELSE IF SubSeq(s, from + 1, from + Len(p)) = p THEN from
    ELSE Find(s, p, from + 1)

\* `p in s` for strings
Contains(s, p) == Find(s, p, 0) >= 0

\* str.split(sep) for a non-empty separator: always at least one piece
RECURSIVE Split(_, _)
Split(s, sep) ==
    LET k == Find(s, sep, 0)
    IN  IF k < 0
        THEN <<s>>
        ELSE <<SubSeq(s, 1, k)>> \o Split(DropFirst(s, k + Len(sep)), sep)

\* sep.join(parts)
RECURSIVE Join(_, _)
Join(parts, sep) ==
    IF parts = <<>> THEN <<>>
    ELSE IF Len(parts) = 1 THEN parts[1]
    ELSE parts[1] \o sep \o Join(Tail(parts), sep)

\* str(n) for a non-negative integer, as f"{i}" formats it
RECURSIVE IntToStr(_)
IntToStr(n) ==
    LET d == <<"0", "1", "2", "3", "4", "5", "6", "7", "8", "9">>[(n % 10) + 1]
    IN  IF n < 10 THEN <<d>> ELSE IntToStr(n \div 10) \o <<d>>

\* length of the leading run of digits of s
RECURSIVE DigitPrefixLen(_)
DigitPrefixLen(s) ==
    IF s # <<>> /\ s[1] \in Digits THEN 1 + DigitPrefixLen(Tail(s)) ELSE 0

\* re.match(r'^\d+\.', line)
MatchMarker(line) ==
    LET n == DigitPrefixLen(line)
    IN  n >= 1 /\ Len(line) > n /\ line[n + 1] = "."

\* re.sub(r'^\d+\.\s*', '', line)
SubMarker(line) ==
    IF MatchMarker(line)
    THEN LStrip(DropFirst(line, DigitPrefixLen(line) + 1))
    ELSE line

(***************************************************************************)
(* utils.py : TextCleaner                                                  *)
(***************************************************************************)

\* TextCleaner.PREFIXES_TO_REMOVE, in list order
PREFIXES_TO_REMOVE ==
    << <<"T", "r", "a", "n", "s", "l", "a", "t", "i", "o", "n", ":">>,
       <<"H", "e", "r", "e", " ", "i", "s", " ", "t", "h", "e", " ", "t", "r", "a", "n", "s", "l", "a", "t", "i", "o", "n", ":">>,
       <<"T", "h", "e", " ", "t", "r", "a", "n", "s", "l", "a", "t", "i", "o", "n", " ", "i", "s", ":">>,
       <<"T", "r", "a", "n", "s", "l", "a", "t", "e", "d", " ", "t", "e", "x", "t", ":">>,
       <<"R", "e", "s", "u", "l", "t", ":">>,
       <<"O", "u", "t", "p", "u", "t", ":">>,
       <<"A", "n", "s", "w", "e", "r", ":">>,
       <<"R", "e", "s", "p", "o", "n", "s", "e", ":">> >>

\* TextCleaner.METADATA_KEYWORDS
METADATA_KEYWORDS ==
    { <<"u", "s", "e", "d", "_", "t", "o", "o", "l", "s", "=">>,
      <<"t", "o", "o", "l", "s", "_", "e", "r", "r", "o", "r", "s", "=">>,
      <<"d", "e", "l", "e", "g", "a", "t", "i", "o", "n", "s", "=">>,
      <<"i", "1", "8", "n", "=">> }

\* the literal '[Translation of item'
ItemMarkerLiteral == <<"[", "T", "r", "a", "n", "s", "l", "a", "t", "i", "o", "n", " ", "o", "f", " ", "i", "t", "e", "m">>

\* the first prefix of PREFIXES_TO_REMOVE that text starts with
\* (case-insensitively) is cut off and the rest stripped; the loop breaks there
RemovePrefix(text) ==
    LET lowered == Lower(text)
        hits == {k \in 1..Len(PREFIXES_TO_REMOVE) :
                    StartsWith(lowered, Lower(PREFIXES_TO_REMOVE[k]))}
    IN  IF hits = {} THEN text
        ELSE LET k == CHOOSE h \in hits : \A g \in hits : h <= g
             IN  Strip(DropFirst(text, Len(PREFIXES_TO_REMOVE[k])))

\* the per-line filter of clean_translation_result, applied to a stripped line
KeepLine(line) ==
    LET lowered == Lower(line)
    IN  /\ line # <<>>
        /\ ~StartsWith(line, <<"#">>)
        /\ ~StartsWith(line, ItemMarkerLiteral)
        /\ ~(\E keyword \in METADATA_KEYWORDS : Contains(lowered, keyword))

RECURSIVE CleanLines(_)
CleanLines(lines) ==
    IF lines = <<>> THEN <<>>
    ELSE LET line == Strip(Head(lines))
         IN  (IF KeepLine(line) THEN <<line>> ELSE <<>>) \o CleanLines(Tail(lines))

\* TextCleaner.clean_translation_result
clean_translation_result(result_text) ==
    LET text == RemovePrefix(Strip(result_text))
    IN  Strip(Join(CleanLines(Split(text, <<"\n">>)), <<"\n">>))

(***************************************************************************)
(* translation_engine.py : TranslationEngine                               *)
(***************************************************************************)

\* `if text.strip()` : the text is non-empty after trimming
NonEmptyText(text) == Strip(text) # <<>>

\* the loop of _parse_translation_result over the lines of the cleaned result;
\* returns the pair <<translated_texts, current_text>>
RECURSIVE ParseLines(_, _, _)
ParseLines(lines, translated_texts, current_text) ==
    IF lines = <<>> THEN <<translated_texts, current_text>>
    ELSE LET line == Strip(Head(lines))
         IN  IF MatchMarker(line)
             THEN ParseLines(Tail(lines),
                             IF current_text # <<>>
                             THEN Append(translated_texts, Strip(current_text))
                             ELSE translated_texts,
                             SubMarker(line))
             ELSE IF current_text # <<>> /\ line # <<>>
             THEN ParseLines(Tail(lines), translated_texts,
                             current_text \o <<" ">> \o line)
             ELSE ParseLines(Tail(lines), translated_texts, current_text)

\* mutant: the text gathered last is appended without looking whether it is empty
ParsedItemsKeepEmpty(result) ==
    LET cleaned_result == clean_translation_result(result)
        st == ParseLines(Split(cleaned_result, <<"\n">>), <<>>, <<>>)
    IN  Append(st[1], Strip(st[2]))

\* the numbered items of a raw backend result (lines 92-109)
ParsedItems(result) ==
    LET cleaned_result == clean_translation_result(result)
        st == ParseLines(Split(cleaned_result, <<"\n">>), <<>>, <<>>)
    IN  IF st[2] # <<>> THEN Append(st[1], Strip(st[2])) ELSE st[1]

\* TranslationEngine._align_translations_with_inputs, the loop from
\* translated_index (0-based) on
RECURSIVE AlignFrom(_, _, _)
AlignFrom(translated_texts, batch_texts, translated_index) ==
    IF batch_texts = <<>> THEN <<>>
    ELSE LET original_text == Head(batch_texts)
         IN  IF NonEmptyText(original_text)
             THEN IF translated_index < Len(translated_texts)
                  THEN <<translated_texts[translated_index + 1]>>
                       \o AlignFrom(translated_texts, Tail(batch_texts),
                                    translated_index + 1)
                  ELSE <<original_text>>
                       \o AlignFrom(translated_texts, Tail(batch_texts),
                                    translated_index)
             ELSE <<original_text>>
                  \o AlignFrom(translated_texts, Tail(batch_texts),
                               translated_index)

\* mutant: empty originals are not emitted, only the non-empty ones are aligned
align_dropping_empty_inputs(translated_texts, batch_texts) ==
    AlignFrom(translated_texts, SelectSeq(batch_texts, NonEmptyText), 0)

\* mutant: the parsed item is taken by the position in the batch, so an empty
\* original uses up an item
align_by_batch_position(translated_texts, batch_texts) ==
    [p \in 1..Len(batch_texts) |->
        IF NonEmptyText(batch_texts[p]) /\ p <= Len(translated_texts)
        THEN translated_texts[p]
        ELSE batch_texts[p]]

\* TranslationEngine._align_translations_with_inputs
align_translations_with_inputs(translated_texts, batch_texts) ==
    AlignFrom(translated_texts, batch_texts, 0)

\* mutant: a result without numbered items is taken as one translation
parse_unnumbered_as_item(result, batch_texts) ==
    align_translations_with_inputs(
        IF ParsedItems(result) = <<>> /\ clean_translation_result(result) # <<>>
        THEN <<clean_translation_result(result)>>
        ELSE ParsedItems(result),
        batch_texts)

\* TranslationEngine._parse_translation_result
parse_translation_result(result, batch_texts) ==
    align_translations_with_inputs(ParsedItems(result), batch_texts)

\* the numbered_texts loop of translate_batch (lines 42-45), from 1-based
\* position i on
RECURSIVE NumberedFrom(_, _)
NumberedFrom(batch_texts, i) ==
    IF batch_texts = <<>> THEN <<>>
    ELSE (IF NonEmptyText(Head(batch_texts))
          THEN <<IntToStr(i) \o <<".", " ">> \o Head(batch_texts)>>
          ELSE <<>>)
         \o NumberedFrom(Tail(batch_texts), i + 1)

\* mutant: every text of the batch is numbered, the empty ones too
numbered_texts_with_empties(batch_texts) ==
    [p \in 1..Len(batch_texts) |-> IntToStr(p) \o <<".", " ">> \o batch_texts[p]]

\* numbered_texts of translate_batch
numbered_texts(batch_texts) == NumberedFrom(batch_texts, 1)

\* batch_text = "\n\n".join(numbered_texts)
batch_text(batch_texts) == Join(numbered_texts(batch_texts), <<"\n", "\n">>)

\* TranslationEngine.translate_batch when crew.kickoff() returns result
translate_batch_returns(batch_texts, result) ==
    IF numbered_texts(batch_texts) = <<>>
    THEN batch_texts
    ELSE parse_translation_result(result, batch_texts)

\* mutant: the except branch returns an empty list
translate_batch_raises_empty(batch_texts) == <<>>

\* mutant: the except branch marks the texts it could not translate
translate_batch_raises_marked(batch_texts) ==
    [k \in 1..Len(batch_texts) |-> batch_texts[k] \o <<"?">>]

\* TranslationEngine.translate_batch when crew.kickoff() raises: the except
\* branch returns the original texts
translate_batch_raises(batch_texts) == batch_texts

(***************************************************************************)
(* Paths: a path is a directory and a file name; the directory of a        *)
(* relative path is "", the working directory is "cwd" and the Desktop     *)
(* folder of the home directory is "Desktop".                              *)
(***************************************************************************)

\* Path(name) for a name without a directory
Relative(name) == [dir |-> "", name |-> name]

\* Path.cwd() / p : an absolute p is returned as it is
InWorkingDir(name) == [dir |-> "cwd", name |-> name]
UnderWorkingDir(p) == IF p.dir = "" THEN InWorkingDir(p.name) ELSE p

\* Path.home() / "Desktop" / p : an absolute p is returned as it is
OnDesktop(name) == [dir |-> "Desktop", name |-> name]
UnderDesktop(p) == IF p.dir = "" THEN OnDesktop(p.name) ELSE p

\* Path.exists(): a relative path is looked up in the working directory
Exists(p, fs) == UnderWorkingDir(p) \in fs

\* the result of a search that found no existing path
NoPath == [dir |-> "", name |-> ""]

\* the first path of a list that exists
RECURSIVE FirstExisting(_, _)
FirstExisting(ps, fs) ==
    IF ps = <<>> THEN NoPath
    ELSE IF Exists(Head(ps), fs) THEN Head(ps)
    ELSE FirstExisting(Tail(ps), fs)

\* PathResolver.resolve_file_path: NoPath stands for FileNotFoundError
resolve_file_path(file_path, fs) ==
    IF Exists(file_path, fs) THEN file_path
    ELSE FirstExisting(<< file_path,
                          UnderWorkingDir(file_path),
                          InWorkingDir("input.docx"),
                          UnderDesktop(file_path),
                          OnDesktop("input.docx") >>, fs)

\* Config.validate_input_file: the value of config['input_doc'] afterwards,
\* NoPath when the method returns False
validate_input_file(input_doc, fs) ==
    IF Exists(input_doc, fs) THEN input_doc
    ELSE FirstExisting(<< InWorkingDir("input.docx"),
                          OnDesktop("input.docx"),
                          UnderWorkingDir(input_doc) >>, fs)

(***************************************************************************)
(* config.py : Config, and agents : AgentFactory                           *)
(***************************************************************************)

\* Config.DEFAULT_CONFIG (the keys the pipeline reads)
DEFAULT_CONFIG ==
    [target_language |-> "Hindi", batch_size |-> 2,
     input_doc |-> Relative("input.docx"),
     output_doc |-> Relative("translated_paper.docx")]

\* the default of config.get('batch_size', 3) in process_paragraphs
ProcessDefaultBatchSize == 3

\* what yaml.safe_load may return for an existing config.yaml: any subset of
\* the keys may be left out
YamlConfigs ==
    { [target_language |-> "French", batch_size |-> 1,
       input_doc |-> Relative("input.docx"), output_doc |-> Relative("out.docx")],
      [target_language |-> "French",
       input_doc |-> Relative("input.docx"), output_doc |-> Relative("out.docx")],
      [batch_size |-> 1,
       input_doc |-> Relative("input.docx"), output_doc |-> Relative("out.docx")],
      [llm_model |-> "ollama/mistral:7b",
       input_doc |-> Relative("input.docx"), output_doc |-> Relative("out.docx")] }

\* dict.get(key, default)
ConfigGet(cfg, key, default) ==
    IF key \in DOMAIN cfg THEN cfg[key] ELSE default

(***************************************************************************)
(* utils.py : DocumentAnalyzer.analyze_paragraph_structure                 *)
(* A paragraph is its runs, its alignment and the name of its style; a run *)
(* holds text, the relationship ids of the pictures embedded in it, and    *)
(* its bold and italic flags.                                              *)
(***************************************************************************)

\* run._element.xpath('.//pic:pic') is non-empty
HasPicture(run) == run.pics # <<>>

\* paragraph.text: the text of the runs, in order
RECURSIVE ParagraphText(_)
ParagraphText(runs) ==
    IF runs = <<>> THEN <<>> ELSE Head(runs).text \o ParagraphText(Tail(runs))

\* lines 39-43: the first blip of the run whose r:embed is set; the break
\* leaves this inner loop only
RECURSIVE FirstEmbedId(_, _)
FirstEmbedId(pics, previous) ==
    IF pics = <<>> THEN previous
    ELSE IF Head(pics) # "" THEN Head(pics)
    ELSE FirstEmbedId(Tail(pics), previous)

\* the value of structure before a paragraph is analyzed
NoStructure ==
    [text |-> <<>>, is_bold |-> FALSE, is_italic |-> FALSE,
     alignment |-> "None", style_name |-> "Normal",
     has_image |-> FALSE, image_data |-> "None"]

\* lines 29-43: the loop over paragraph.runs from run k on
RECURSIVE ScanRuns(_, _, _)
ScanRuns(runs, k, st) ==
    IF k > Len(runs) THEN st
    ELSE LET run == runs[k]
             flagged == [st EXCEPT
                            !.is_bold = IF run.bold THEN TRUE ELSE @,
                            !.is_italic = IF run.italic THEN TRUE ELSE @]
             scanned == IF HasPicture(run)
                        THEN [flagged EXCEPT
                                 !.has_image = TRUE,
                                 !.image_data = FirstEmbedId(run.pics, @)]
                        ELSE flagged
         IN  ScanRuns(runs, k + 1, scanned)

\* DocumentAnalyzer.analyze_paragraph_structure(paragraph)
analyze_paragraph_structure(par) ==
    ScanRuns(par.runs, 1,
             [text |-> ParagraphText(par.runs),
              is_bold |-> FALSE, is_italic |-> FALSE,
              alignment |-> par.alignment, style_name |-> par.style_name,
              has_image |-> FALSE, image_data |-> "None"])

(***************************************************************************)
(* The document and the text units read from it                            *)
(***************************************************************************)

\* bound: number of paragraphs of the source document
MaxParas == 3

\* paragraphs a source document may hold: without runs, with a picture only,
\* with blank text and a picture, with bold centred heading text, with text in
\* two runs of which one holds a picture
DocParagraphs ==
    { [runs |-> <<>>, alignment |-> "None", style_name |-> "Normal"],
      [runs |-> << [text |-> <<>>, pics |-> <<"rId1">>,
                    bold |-> FALSE, italic |-> FALSE] >>,
       alignment |-> "None", style_name |-> "Normal"],
      [runs |-> << [text |-> <<" ">>, pics |-> <<>>,
                    bold |-> FALSE, italic |-> TRUE],
                   [text |-> <<>>, pics |-> <<"rId1">>,
                    bold |-> FALSE, italic |-> FALSE] >>,
       alignment |-> "CENTER", style_name |-> "Normal"],
      [runs |-> << [text |-> <<"a">>, pics |-> <<>>,
                    bold |-> TRUE, italic |-> FALSE] >>,
       alignment |-> "CENTER", style_name |-> "Heading 1"],
      [runs |-> << [text |-> <<"b">>, pics |-> <<"rId2">>,
                    bold |-> FALSE, italic |-> FALSE],
                   [text |-> <<" ">>, pics |-> <<>>,
                    bold |-> TRUE, italic |-> TRUE] >>,
       alignment |-> "None", style_name |-> "Caption"] }

Documents ==
    UNION { [1..n -> DocParagraphs] : n \in 0..MaxParas }

\* DocumentReader._run, lines 61-67: enumerate(doc.paragraphs), the structure
\* of each paragraph with index = position in the document (0-based), kept
\* when the paragraph has text or an image
RECURSIVE ReadFrom(_, _)
ReadFrom(d, k) ==
    IF k > Len(d) THEN <<>>
    ELSE LET analyzed == analyze_paragraph_structure(d[k])
             unit == [index |-> k - 1,
                      text |-> analyzed.text,
                      is_bold |-> analyzed.is_bold,
                      is_italic |-> analyzed.is_italic,
                      alignment |-> analyzed.alignment,
                      style_name |-> analyzed.style_name,
                      has_image |-> analyzed.has_image,
                      image_data |-> analyzed.image_data]
         IN  (IF NonEmptyText(ParagraphText(d[k].runs)) \/ analyzed.has_image
              THEN <<unit>> ELSE <<>>)
             \o ReadFrom(d, k + 1)

ReadParagraphs(d) == ReadFrom(d, 1)

\* bound: number of tables of the source document
MaxTables == 2

\* grids a table may hold (rows of cell texts): no row, one cell, two rows
Grids ==
    { <<>>,
      << <<"c">> >>,
      << <<"c", "d">>, <<"e", "f">> >> }

TableLists == UNION { [1..n -> Grids] : n \in 0..MaxTables }

\* DocumentAnalyzer.extract_tables_from_document
extract_tables_from_document(grids) ==
    [k \in 1..Len(grids) |->
        [index |-> k - 1,
         data |-> grids[k],
         rows |-> Len(grids[k]),
         cols |-> IF grids[k] # <<>> THEN Len(grids[k][1]) ELSE 0]]

\* mutant: a table is appended when it has more than one row
RECURSIVE translate_tables_multirow(_)
translate_tables_multirow(ts) ==
    IF ts = <<>> THEN <<>>
    ELSE (IF Len(Head(ts).data) > 1 THEN <<Head(ts)>> ELSE <<>>)
         \o translate_tables_multirow(Tail(ts))

\* TranslationSystem._translate_tables: a table is appended when
\* table.get('data') is truthy
RECURSIVE translate_tables(_)
translate_tables(ts) ==
    IF ts = <<>> THEN <<>>
    ELSE (IF Head(ts).data # <<>> THEN <<Head(ts)>> ELSE <<>>)
         \o translate_tables(Tail(ts))

\* raw results crew.kickoff() may return (str(result))
BackendResponses ==
    { <<>>,
      <<"S", "o", "r", "r", "y", ".">>,
      <<"1", ".", " ", "x">>,
      <<"1", ".", " ", "x", "\n", "\n", "2", ".", " ", "y">>,
      <<"T", "r", "a", "n", "s", "l", "a", "t", "i", "o", "n", ":", "\n",
        "1", ".", " ", "x", "\n", "2", ".", " ", "y", "\n",
        "3", ".", " ", "z", "\n", "4", ".", " ", "w">> }

(***************************************************************************)
(* document_io.py : DocumentWriter._update_paragraph_text                  *)
(* applied to the runs of a paragraph                                      *)
(***************************************************************************)

\* run.text = text : the setter replaces the whole content of the run
SetRunText(run, text) == [run EXCEPT !.text = text, !.pics = <<>>]

\* paragraph.add_run(text)
AddRun(runs, text) ==
    Append(runs, [text |-> text, pics |-> <<>>, bold |-> FALSE, italic |-> FALSE])

\* mutant: the clearing loop does not look for pictures
ClearAllRuns(runs) == [k \in DOMAIN runs |-> SetRunText(runs[k], <<>>)]

\* lines 129-131: clear the text of the runs without a picture
ClearTextRuns(runs) ==
    [k \in DOMAIN runs |->
        IF ~HasPicture(runs[k]) THEN SetRunText(runs[k], <<>>) ELSE runs[k]]

\* the first run without a picture (1-based), 0 when there is none
FirstTextRun(runs) ==
    IF \E k \in DOMAIN runs : ~HasPicture(runs[k])
    THEN CHOOSE k \in DOMAIN runs :
            /\ ~HasPicture(runs[k])
            /\ \A h \in 1..(k - 1) : HasPicture(runs[h])
    ELSE 0

\* DocumentWriter._update_paragraph_text: the runs of the paragraph afterwards
update_paragraph_text(runs, trans) ==
    IF NonEmptyText(trans.text) /\ ~trans.has_image
    THEN LET cleared == ClearTextRuns(runs)
             first_text_run == FirstTextRun(cleared)
         IN  IF first_text_run # 0
             THEN [cleared EXCEPT ![first_text_run] = SetRunText(@, trans.text)]
             ELSE AddRun(cleared, trans.text)
    ELSE IF NonEmptyText(trans.text) /\ trans.has_image
    THEN LET first_text_run == FirstTextRun(runs)
         IN  IF first_text_run # 0
             THEN [runs EXCEPT ![first_text_run] = SetRunText(@, trans.text)]
             ELSE AddRun(runs, <<" ">> \o trans.text)
    ELSE runs

(***************************************************************************)
(* State                                                                   *)
(***************************************************************************)
VARIABLES
    pc,                     \* position of the run
    config,                 \* Config.config / TranslationSystem.config
    target_language,        \* AgentFactory.target_language
    doc,                    \* the paragraphs of the source document
    paragraphs,             \* argument of process_paragraphs
    batch_size,             \* local batch_size of process_paragraphs
    i,                      \* loop variable of process_paragraphs
    translated_paragraphs,  \* local translated_paragraphs
    calls,                  \* bodies handed to crew.kickoff(), in order
    batch_log,              \* the batches formed so far and how each ended
    degraded,               \* paragraphs is the output of a run whose calls all failed
    result,                 \* argument of _parse_translation_result
    batch_texts,            \* argument of _parse_translation_result
    aligned,                \* return value of _parse_translation_result
    ppc,                    \* position of the parser run
    paragraph,              \* the runs of the paragraph given to _update_paragraph_text
    trans_para,             \* the translated unit given to _update_paragraph_text
    original_runs,          \* the runs of that paragraph before the call
    structure,              \* return value of analyze_paragraph_structure
    wpc,                    \* position of the writer run
    sleeps,                 \* time.sleep calls finished in this process_paragraphs call
    files,                  \* the paths at which a document exists
    doc_tables,             \* the grids of the tables of the source document
    read_path,              \* the path DocumentReader opened
    tables,                 \* doc_content['tables']
    translated_tables,      \* local translated_tables of run_translation
    translated_content,     \* local translated_content of run_translation
    written,                \* what DocumentWriter saved
    summary,                \* return value of run_translation
    steps,                  \* the steps run_translation has entered, in order
    raised                  \* the step whose exception left run_translation

pipeVars == <<pc, config, target_language, doc, paragraphs, batch_size, i,
              translated_paragraphs, calls, batch_log, degraded, sleeps>>
parseVars == <<result, batch_texts, aligned, ppc>>
writerVars == <<paragraph, trans_para, original_runs, structure, wpc>>
runVars == <<files, doc_tables, read_path, tables, translated_tables,
             translated_content, written, summary, steps, raised>>
vars == <<pipeVars, parseVars, writerVars, runVars>>

Min(a, b) == IF a < b THEN a ELSE b

\* mutant: the slice takes one paragraph too many
SliceOneMore(seq, from, n) == SubSeq(seq, from + 1, Min(from + n + 1, Len(seq)))

\* paragraphs[i:i+batch_size]
Slice(seq, from, n) == SubSeq(seq, from + 1, Min(from + n, Len(seq)))

\* [p['text'] for p in batch]
Texts(batch) == [k \in 1..Len(batch) |-> batch[k].text]

\* mutant: the copy gets its index from the position in the output
UpdatedBatchRenumbered(batch, translated_texts) ==
    [j \in 1..Min(Len(translated_texts), Len(batch)) |->
        [batch[j] EXCEPT !.text = translated_texts[j], !.index = j - 1]]

\* mutant: the output unit is built anew and keeps only the index, the text
\* and the image fields of the input unit
UpdatedBatchFreshRecord(batch, translated_texts) ==
    [j \in 1..Min(Len(translated_texts), Len(batch)) |->
        [index |-> batch[j].index, text |-> translated_texts[j],
         is_bold |-> FALSE, is_italic |-> FALSE,
         alignment |-> "None", style_name |-> "Normal",
         has_image |-> batch[j].has_image, image_data |-> batch[j].image_data]]

\* lines 158-162: one copy of batch[j] with the translated text per
\* translated text whose position j is inside the batch
UpdatedBatch(batch, translated_texts) ==
    [j \in 1..Min(Len(translated_texts), Len(batch)) |->
        [batch[j] EXCEPT !.text = translated_texts[j]]]

\* the batch of the current loop iteration
CurrentBatch == Slice(paragraphs, i, batch_size)

ParseIdle ==
    /\ result = <<>> /\ batch_texts = <<>> /\ aligned = <<>> /\ ppc = "idle"

\* the value of a local of run_translation that has not been assigned
Unset == [unset |-> TRUE]

RunIdle ==
    /\ read_path = NoPath
    /\ tables = <<>>
    /\ translated_tables = <<>>
    /\ translated_content = Unset
    /\ written = Unset
    /\ summary = Unset
    /\ steps = <<>>
    /\ raised = "none"

WriterIdle ==
    /\ paragraph = <<>>
    /\ trans_para = [text |-> <<>>, has_image |-> FALSE]
    /\ original_runs = <<>>
    /\ structure = NoStructure
    /\ wpc = "idle"

Init ==
    /\ pc = "start"
    /\ config = [unset |-> TRUE]
    /\ target_language = "unset"
    /\ doc \in Documents
    /\ paragraphs = <<>>
    /\ batch_size = 0
    /\ i = 0
    /\ translated_paragraphs = <<>>
    /\ calls = <<>>
    /\ batch_log = <<>>
    /\ degraded = FALSE
    /\ sleeps = 0
    /\ ParseIdle
    /\ WriterIdle
    /\ RunIdle
    /\ files = { InWorkingDir("input.docx") }
    /\ doc_tables = <<>>

\* Config.load_config: config.yaml exists, its contents are returned as they are
LoadConfigFile ==
    /\ pc = "start"
    /\ \E c \in YamlConfigs : config' = c
    /\ pc' = "configured"
    /\ UNCHANGED <<target_language, doc, paragraphs, batch_size, i,
                   translated_paragraphs, calls, batch_log, degraded, sleeps,
                   parseVars, writerVars, runVars>>

\* Config.load_config: config.yaml is missing, DEFAULT_CONFIG is written and returned
LoadConfigDefault ==
    /\ pc = "start"
    /\ config' = DEFAULT_CONFIG
    /\ pc' = "configured"
    /\ UNCHANGED <<target_language, doc, paragraphs, batch_size, i,
                   translated_paragraphs, calls, batch_log, degraded, sleeps,
                   parseVars, writerVars, runVars>>

\* TranslationSystem.__init__ -> TranslationEngine.__init__ ->
\* AgentFactory.__init__: config['target_language'] raises KeyError when absent
CreateSystem ==
    /\ pc \in {"configured", "validated"}
    /\ IF "target_language" \in DOMAIN config
       THEN /\ target_language' = config["target_language"]
            /\ pc' = "created"
       ELSE /\ target_language' = target_language
            /\ pc' = "failed"
    /\ UNCHANGED <<config, doc, paragraphs, batch_size, i,
                   translated_paragraphs, calls, batch_log, degraded, sleeps,
                   parseVars, writerVars, runVars>>

\* run_translation step 1: _read_document -> DocumentReader._run; the
\* FileNotFoundError of resolve_file_path leaves run_translation
ReadDocument ==
    /\ pc = "created"
    /\ steps' = Append(steps, "Read")
    /\ LET path == resolve_file_path(config["input_doc"], files)
       IN  IF path # NoPath
           THEN /\ read_path' = path
                /\ paragraphs' = ReadParagraphs(doc)
                /\ tables' = extract_tables_from_document(doc_tables)
                /\ pc' = "read"
                /\ raised' = raised
           ELSE /\ pc' = "aborted"
                /\ raised' = "Read"
                /\ UNCHANGED <<read_path, paragraphs, tables>>
    /\ UNCHANGED <<config, target_language, doc, batch_size, i,
                   translated_paragraphs, calls, batch_log, degraded, sleeps,
                   parseVars, writerVars, files, doc_tables, translated_tables,
                   translated_content, written, summary>>

\* process_paragraphs, lines 141-145
BeginProcess ==
    /\ pc = "read"
    /\ batch_size' = ConfigGet(config, "batch_size", ProcessDefaultBatchSize)
    /\ translated_paragraphs' = <<>>
    /\ i' = 0
    /\ calls' = <<>>
    /\ batch_log' = <<>>
    /\ sleeps' = 0
    /\ pc' = "loop"
    /\ UNCHANGED <<config, target_language, doc, paragraphs, degraded,
                   parseVars, writerVars>>

\* BatchProcessor.process_paragraphs called on its own
StartProcess ==
    /\ BeginProcess
    /\ UNCHANGED runVars

\* one iteration whose batch has no non-empty text: translate_batch returns
\* batch_texts at line 48 without a backend call; lines 158-165 follow
SkipBatch ==
    /\ pc = "loop"
    /\ i < Len(paragraphs)
    /\ numbered_texts(Texts(CurrentBatch)) = <<>>
    /\ translated_paragraphs' = translated_paragraphs
          \o UpdatedBatch(CurrentBatch, Texts(CurrentBatch))
    /\ batch_log' = Append(batch_log,
          [start |-> i, batch |-> CurrentBatch, outcome |-> "skipped"])
    /\ pc' = "sleep"
    /\ UNCHANGED <<config, target_language, doc, paragraphs, batch_size, i,
                   calls, degraded, sleeps,
                   parseVars, writerVars, runVars>>

\* one iteration up to crew.kickoff(): lines 148-155 and 41-64
SubmitBatch ==
    /\ pc = "loop"
    /\ i < Len(paragraphs)
    /\ numbered_texts(Texts(CurrentBatch)) # <<>>
    /\ calls' = Append(calls,
          [batch_index |-> i \div batch_size,
           body |-> batch_text(Texts(CurrentBatch))])
    /\ batch_log' = Append(batch_log,
          [start |-> i, batch |-> CurrentBatch, outcome |-> "in_flight"])
    /\ pc' = "kickoff"
    /\ UNCHANGED <<config, target_language, doc, paragraphs, batch_size, i,
                   translated_paragraphs, degraded, sleeps,
                   parseVars, writerVars, runVars>>

\* mutant: after a translated batch the next one starts without the delay
KickoffReturnsNoDelay ==
    /\ pc = "kickoff"
    /\ \E r \in BackendResponses :
          translated_paragraphs' = translated_paragraphs
             \o UpdatedBatch(CurrentBatch,
                             translate_batch_returns(Texts(CurrentBatch), r))
    /\ batch_log' = [batch_log EXCEPT ![Len(batch_log)].outcome = "translated"]
    /\ i' = i + batch_size
    /\ pc' = "loop"
    /\ UNCHANGED <<config, target_language, doc, paragraphs, batch_size,
                   calls, degraded, sleeps,
                   parseVars, writerVars, runVars>>

\* crew.kickoff() returns: lines 65 and 158-165
KickoffReturns ==
    /\ pc = "kickoff"
    /\ \E r \in BackendResponses :
          translated_paragraphs' = translated_paragraphs
             \o UpdatedBatch(CurrentBatch,
                             translate_batch_returns(Texts(CurrentBatch), r))
    /\ batch_log' = [batch_log EXCEPT ![Len(batch_log)].outcome = "translated"]
    /\ pc' = "sleep"
    /\ UNCHANGED <<config, target_language, doc, paragraphs, batch_size, i,
                   calls, degraded, sleeps,
                   parseVars, writerVars, runVars>>

\* crew.kickoff() raises: lines 67-70 and 158-165
KickoffRaises ==
    /\ pc = "kickoff"
    /\ translated_paragraphs' = translated_paragraphs
          \o UpdatedBatch(CurrentBatch, translate_batch_raises(Texts(CurrentBatch)))
    /\ batch_log' = [batch_log EXCEPT ![Len(batch_log)].outcome = "failed"]
    /\ pc' = "sleep"
    /\ UNCHANGED <<config, target_language, doc, paragraphs, batch_size, i,
                   calls, degraded, sleeps,
                   parseVars, writerVars, runVars>>

\* the step of range(0, len(paragraphs), batch_size)
NextStart(from, size) == from + size

\* time.sleep at line 168, then the next value of the loop variable
Sleep ==
    /\ pc = "sleep"
    /\ sleeps' = sleeps + 1
    /\ i' = NextStart(i, batch_size)
    /\ pc' = "loop"
    /\ UNCHANGED <<config, target_language, doc, paragraphs, batch_size,
                   translated_paragraphs, calls, batch_log, degraded,
                   parseVars, writerVars, runVars>>

\* the loop is exhausted: lines 170-171
Finish ==
    /\ pc = "loop"
    /\ i >= Len(paragraphs)
    /\ pc' = "done"
    /\ UNCHANGED <<config, target_language, doc, paragraphs, batch_size, i,
                   translated_paragraphs, calls, batch_log, degraded, sleeps,
                   parseVars, writerVars, runVars>>

\* every backend call of the finished run failed, and there was one
AllCallsFailed ==
    /\ \A k \in 1..Len(batch_log) : batch_log[k].outcome \in {"failed", "skipped"}
    /\ \E k \in 1..Len(batch_log) : batch_log[k].outcome = "failed"

\* the caller runs process_paragraphs again on the output of a run whose
\* backend calls all failed
RerunDegraded ==
    /\ pc = "done"
    /\ ~degraded
    /\ AllCallsFailed
    /\ paragraphs' = translated_paragraphs
    /\ degraded' = TRUE
    /\ pc' = "read"
    /\ UNCHANGED <<config, target_language, doc, batch_size, i,
                   translated_paragraphs, calls, batch_log, sleeps,
                   parseVars, writerVars, runVars>>

Next ==
    \/ LoadConfigFile
    \/ LoadConfigDefault
    \/ CreateSystem
    \/ ReadDocument
    \/ StartProcess
    \/ SkipBatch
    \/ SubmitBatch
    \/ KickoffReturns
    \/ KickoffRaises
    \/ Sleep
    \/ Finish
    \/ RerunDegraded

Spec == Init /\ [][Next]_vars

(***************************************************************************)
(* The parser on its own: _parse_translation_result applied to a raw       *)
(* result and a batch                                                      *)
(***************************************************************************)

\* bound: number of lines of a raw result
MaxLines == 2

\* bound: number of texts of a batch
MaxBatch == 3

\* lines a raw result is made of: numbered items, a continuation line, a
\* marker without text, a comment, a metadata line, a line with a preamble
ResultLines ==
    { <<"1", ".", " ", "x">>,
      <<"2", ".", "y">>,
      <<" ", "z">>,
      <<"1", ".">>,
      <<"#", " ", "1", ".", " ", "c">>,
      <<"I", "1", "8", "N", "=", "1", ".", " ", "q">>,
      <<"r", "e", "s", "u", "l", "t", ":", " ", "2", ".", " ", "w">> }

\* the raw results: up to MaxLines lines
RawResults ==
    { Join(ls, <<"\n">>) :
        ls \in UNION { [1..n -> ResultLines] : n \in 0..MaxLines } }

\* the texts of a paragraph of a batch
BatchTexts == { <<>>, <<" ">>, <<"a", " ">> }

Batches == UNION { [1..n -> BatchTexts] : n \in 0..MaxBatch }

PipeIdle ==
    /\ pc = "idle"
    /\ config = [unset |-> TRUE]
    /\ target_language = "unset"
    /\ doc = <<>>
    /\ paragraphs = <<>>
    /\ batch_size = 0
    /\ i = 0
    /\ translated_paragraphs = <<>>
    /\ calls = <<>>
    /\ batch_log = <<>>
    /\ degraded = FALSE
    /\ sleeps = 0

InitParse ==
    /\ PipeIdle
    /\ WriterIdle
    /\ RunIdle
    /\ files = {}
    /\ doc_tables = <<>>
    /\ result \in RawResults
    /\ batch_texts \in Batches
    /\ aligned = <<>>
    /\ ppc = "call"

\* TranslationEngine._parse_translation_result(result, batch_texts)
ParseResult ==
    /\ ppc = "call"
    /\ aligned' = parse_translation_result(result, batch_texts)
    /\ ppc' = "returned"
    /\ UNCHANGED <<pipeVars, writerVars, runVars, result, batch_texts>>

NextParse == ParseResult

SpecParse == InitParse /\ [][NextParse]_vars

(***************************************************************************)
(* The patch-based writer on its own: _update_paragraph_text applied to a  *)
(* paragraph of the original document and a translated unit                *)
(***************************************************************************)

\* bound: number of runs of a paragraph
MaxRuns == 3

\* runs a paragraph may hold: with and without text, with and without picture
Runs ==
    { [text |-> <<>>,    pics |-> <<>>,       bold |-> FALSE, italic |-> FALSE],
      [text |-> <<"a">>, pics |-> <<>>,       bold |-> TRUE,  italic |-> FALSE],
      [text |-> <<>>,    pics |-> <<"rId1">>, bold |-> FALSE, italic |-> FALSE],
      [text |-> <<"b">>, pics |-> <<"rId2">>, bold |-> FALSE, italic |-> TRUE] }

RunLists == UNION { [1..n -> Runs] : n \in 0..MaxRuns }

\* translated units handed to the writer
TranslatedUnits ==
    [text : { <<>>, <<" ">>, <<"x">> }, has_image : BOOLEAN]

InitWriter ==
    /\ PipeIdle
    /\ ParseIdle
    /\ RunIdle
    /\ files = {}
    /\ doc_tables = <<>>
    /\ paragraph \in RunLists
    /\ trans_para \in TranslatedUnits
    /\ original_runs = paragraph
    /\ structure = NoStructure
    /\ wpc = "call"

\* DocumentWriter._update_paragraph_text(paragraph, trans_para)
UpdateParagraphText ==
    /\ wpc = "call"
    /\ paragraph' = update_paragraph_text(paragraph, trans_para)
    /\ wpc' = "returned"
    /\ UNCHANGED <<pipeVars, parseVars, runVars, trans_para, original_runs, structure>>

\* DocumentAnalyzer.analyze_paragraph_structure applied to the paragraph
AnalyzeParagraphStructure ==
    /\ wpc = "call"
    /\ structure' = analyze_paragraph_structure(
          [runs |-> paragraph, alignment |-> "None", style_name |-> "Normal"])
    /\ wpc' = "analyzed"
    /\ UNCHANGED <<pipeVars, parseVars, runVars, paragraph, trans_para, original_runs>>

NextWriter ==
    \/ UpdateParagraphText
    \/ AnalyzeParagraphStructure

SpecWriter == InitWriter /\ [][NextWriter]_vars

(***************************************************************************)
(* translation_system.py : TranslationSystem.run_translation as a whole,   *)
(* entered from main() after validate_input_file or by a caller that       *)
(* builds TranslationSystem(config) itself                                 *)
(***************************************************************************)

\* the places a source document may be found at
Locations ==
    { InWorkingDir("paper.docx"), InWorkingDir("input.docx"),
      OnDesktop("paper.docx"), OnDesktop("input.docx") }

\* the configuration of the runs
RunConfigs ==
    { [target_language |-> "French", batch_size |-> 1,
       input_doc |-> Relative("paper.docx"), output_doc |-> Relative("out.docx")] }

HeadingParagraph == CHOOSE par \in DocParagraphs : par.style_name = "Heading 1"
CaptionParagraph == CHOOSE par \in DocParagraphs : par.style_name = "Caption"

PictureParagraph ==
    CHOOSE par \in DocParagraphs : Len(par.runs) = 1 /\ par.style_name = "Normal"

\* the source documents of the runs: no paragraph, one with text, one that is
\* a picture only followed by one with a picture and text
RunDocuments ==
    { <<>>, <<HeadingParagraph>>, <<PictureParagraph, CaptionParagraph>> }

InitRun ==
    /\ pc = "configured"
    /\ config \in RunConfigs
    /\ target_language = "unset"
    /\ doc \in RunDocuments
    /\ paragraphs = <<>>
    /\ batch_size = 0
    /\ i = 0
    /\ translated_paragraphs = <<>>
    /\ calls = <<>>
    /\ batch_log = <<>>
    /\ degraded = FALSE
    /\ sleeps = 0
    /\ ParseIdle
    /\ WriterIdle
    /\ RunIdle
    /\ files \in SUBSET Locations
    /\ doc_tables \in TableLists

\* main(), lines 43-44: validate_input_file rewrites config['input_doc'] to
\* the location it found; main returns when it found none
ValidateInputFile ==
    /\ pc = "configured"
    /\ LET found == validate_input_file(config["input_doc"], files)
       IN  IF found # NoPath
           THEN /\ config' = [config EXCEPT !["input_doc"] = found]
                /\ pc' = "validated"
           ELSE /\ config' = config
                /\ pc' = "exit"
    /\ UNCHANGED <<target_language, doc, paragraphs, batch_size, i,
                   translated_paragraphs, calls, batch_log, degraded, sleeps,
                   parseVars, writerVars, runVars>>

\* run_translation step 2: _translate_paragraphs -> process_paragraphs
TranslateParagraphs ==
    /\ BeginProcess
    /\ steps' = Append(steps, "Translate")
    /\ UNCHANGED <<files, doc_tables, read_path, tables, translated_tables,
                   translated_content, written, summary, raised>>

\* translate_batch, lines 52-61: _create_translation_task or Crew(...)
\* raises outside the try block; the exception leaves run_translation
CrewSetupRaises ==
    /\ pc = "loop"
    /\ i < Len(paragraphs)
    /\ numbered_texts(Texts(CurrentBatch)) # <<>>
    /\ pc' = "aborted"
    /\ raised' = "Translate"
    /\ UNCHANGED <<config, target_language, doc, paragraphs, batch_size, i,
                   translated_paragraphs, calls, batch_log, degraded, sleeps,
                   parseVars, writerVars, files, doc_tables, read_path, tables,
                   translated_tables, translated_content, written, summary, steps>>

\* run_translation step 3: _translate_tables
TranslateTables ==
    /\ pc = "done"
    /\ steps' = Append(steps, "MergeTables")
    /\ translated_tables' = translate_tables(tables)
    /\ pc' = "tables"
    /\ UNCHANGED <<config, target_language, doc, paragraphs, batch_size, i,
                   translated_paragraphs, calls, batch_log, degraded, sleeps,
                   parseVars, writerVars, files, doc_tables, read_path, tables,
                   translated_content, written, summary, raised>>

\* run_translation step 4: _create_translated_content (the keys the writer
\* and the summary read)
CreateTranslatedContent ==
    /\ pc = "tables"
    /\ steps' = Append(steps, "AssembleContent")
    /\ translated_content' = [paragraphs |-> translated_paragraphs,
                              tables |-> translated_tables]
    /\ pc' = "assembled"
    /\ UNCHANGED <<config, target_language, doc, paragraphs, batch_size, i,
                   translated_paragraphs, calls, batch_log, degraded, sleeps,
                   parseVars, writerVars, files, doc_tables, read_path, tables,
                   translated_tables, written, summary, raised>>

\* DocumentWriter._run, lines 91-94: the document the writer starts from,
\* NoPath when it builds a new document
writer_base(original_doc_path, fs) ==
    IF original_doc_path # NoPath /\ Exists(original_doc_path, fs)
    THEN original_doc_path
    ELSE NoPath

\* run_translation step 5: _write_document -> DocumentWriter._run saves
WriteDocument ==
    /\ pc = "assembled"
    /\ steps' = Append(steps, "Write")
    /\ written' = [output_path |-> config["output_doc"],
                   base |-> writer_base(config["input_doc"], files),
                   content |-> translated_content]
    /\ files' = files \cup { UnderWorkingDir(config["output_doc"]) }
    /\ pc' = "written"
    /\ UNCHANGED <<config, target_language, doc, paragraphs, batch_size, i,
                   translated_paragraphs, calls, batch_log, degraded, sleeps,
                   parseVars, writerVars, doc_tables, read_path, tables,
                   translated_tables, translated_content, summary, raised>>

\* mutant: the writer logs the exception of doc.save and returns
WriteDocumentRaisesSwallowed ==
    /\ pc = "assembled"
    /\ steps' = Append(steps, "Write")
    /\ pc' = "written"
    /\ raised' = "Write"
    /\ UNCHANGED <<config, target_language, doc, paragraphs, batch_size, i,
                   translated_paragraphs, calls, batch_log, degraded, sleeps,
                   parseVars, writerVars, files, doc_tables, read_path, tables,
                   translated_tables, translated_content, written, summary>>

\* DocumentWriter._run, lines 96 and 102-104: doc.save raises, the exception
\* is logged and raised again
WriteDocumentRaises ==
    /\ pc = "assembled"
    /\ steps' = Append(steps, "Write")
    /\ pc' = "aborted"
    /\ raised' = "Write"
    /\ UNCHANGED <<config, target_language, doc, paragraphs, batch_size, i,
                   translated_paragraphs, calls, batch_log, degraded, sleeps,
                   parseVars, writerVars, files, doc_tables, read_path, tables,
                   translated_tables, translated_content, written, summary>>

\* run_translation step 6: _create_result_summary, then return result
CreateResultSummary ==
    /\ pc = "written"
    /\ steps' = Append(steps, "Summarized")
    /\ summary' = [status |-> "completed",
                   output_file |-> config["output_doc"],
                   paragraphs_translated |-> Len(translated_paragraphs),
                   tables_translated |-> Len(translated_tables),
                   total_paragraphs |-> Len(paragraphs),
                   target_language |-> config["target_language"]]
    /\ pc' = "summarized"
    /\ UNCHANGED <<config, target_language, doc, paragraphs, batch_size, i,
                   translated_paragraphs, calls, batch_log, degraded, sleeps,
                   parseVars, writerVars, files, doc_tables, read_path, tables,
                   translated_tables, translated_content, written, raised>>

NextRun ==
    \/ ValidateInputFile
    \/ CreateSystem
    \/ ReadDocument
    \/ TranslateParagraphs
    \/ SkipBatch
    \/ SubmitBatch
    \/ CrewSetupRaises
    \/ KickoffReturns
    \/ KickoffRaises
    \/ Sleep
    \/ Finish
    \/ TranslateTables
    \/ CreateTranslatedContent
    \/ WriteDocument
    \/ WriteDocumentRaises
    \/ CreateResultSummary

SpecRun == InitRun /\ [][NextRun]_vars

(***************************************************************************)
(* Properties of the parser (checked under SpecParse)                      *)
(***************************************************************************)

\* the 1-based positions of a batch whose text is non-empty after trimming
NonEmptyPositions(texts) == {p \in 1..Len(texts) : NonEmptyText(texts[p])}

\* how many non-empty texts the batch holds up to and including position p
NonEmptyRank(texts, p) == Cardinality({q \in NonEmptyPositions(texts) : q <= p})

\* C1: for every batch and every raw result (the empty string and text without
\* numbered markers included) _parse_translation_result returns as many texts
\* as the batch holds
C1_ParseKeepsLength ==
    ppc = "returned" => Len(aligned) = Len(batch_texts)

\* C1 witness: the parser has returned for a result that holds more items
\* than the non-empty batch has texts
C1_Witness ==
    /\ ppc = "returned"
    /\ Len(ParsedItems(result)) > Len(batch_texts)
    /\ Len(batch_texts) > 0

\* C2: the k-th non-empty original receives the k-th parsed item when there is
\* one and its own text otherwise; an empty or whitespace-only original is
\* emitted unchanged and uses up no item; surplus items are dropped
C2_AlignmentPolicy ==
    ppc = "returned" =>
        LET items == ParsedItems(result)
        IN  /\ DOMAIN aligned = DOMAIN batch_texts
            /\ \A p \in DOMAIN batch_texts :
                  LET k == NonEmptyRank(batch_texts, p)
                  IN  aligned[p] =
                         IF p \in NonEmptyPositions(batch_texts) /\ k <= Len(items)
                         THEN items[k]
                         ELSE batch_texts[p]

\* C2 witness: a non-empty, an empty and a non-empty original with two parsed
\* items: the second item lands on the third original
C2_Witness ==
    /\ ppc = "returned"
    /\ batch_texts = << <<"a", " ">>, <<>>, <<"a", " ">> >>
    /\ ParsedItems(result) = << <<"x">>, <<"y">> >>
    /\ aligned = << <<"x">>, <<>>, <<"y">> >>

\* the lines of the cleaned result that the parser takes for a numbered marker
MarkerLines(raw) ==
    LET lines == Split(clean_translation_result(raw), <<"\n">>)
    IN  {k \in 1..Len(lines) : MatchMarker(Strip(lines[k]))}

\* C6: when no line of the result is recognised as a numbered marker, the
\* batch comes back as its original texts at every position
C6_NoMarkerKeepsOriginals ==
    (ppc = "returned" /\ MarkerLines(result) = {}) => aligned = batch_texts

\* C6 witness: a non-empty result without a recognised marker for a batch of
\* three non-empty texts
C6_Witness ==
    /\ ppc = "returned"
    /\ clean_translation_result(result) # <<>>
    /\ MarkerLines(result) = {}
    /\ Len(batch_texts) = 3
    /\ NonEmptyPositions(batch_texts) = {1, 2, 3}
    /\ aligned = batch_texts

\* the stripped lines of the cleaned result, as the parser walks them
ParserLines(raw) ==
    LET lines == Split(clean_translation_result(raw), <<"\n">>)
    IN  [k \in 1..Len(lines) |-> Strip(lines[k])]

\* the position of the j-th marker line
MarkerAt(raw, j) ==
    CHOOSE m \in MarkerLines(raw) :
        Cardinality({h \in MarkerLines(raw) : h <= m}) = j

\* the text after the marker at line m, joined by single spaces with the
\* non-marker lines that follow it up to the next marker
TextOfMarker(raw, m) ==
    LET lines == ParserLines(raw)
        later == {h \in MarkerLines(raw) : h > m}
        last == IF later = {} THEN Len(lines)
                ELSE (CHOOSE h \in later : \A g \in later : h <= g) - 1
    IN  Join(<<SubMarker(lines[m])>> \o SubSeq(lines, m + 1, last), <<" ">>)

\* C14: every line that begins with an integer and a period starts an item, so
\* there are as many items as marker lines, and the k-th item is the text of
\* the k-th marker joined with its following lines, in the order of the text
C14_ItemPerMarker ==
    ppc = "returned" =>
        LET items == ParsedItems(result)
        IN  /\ Len(items) = Cardinality(MarkerLines(result))
            /\ \A j \in 1..Len(items) :
                  items[j] = TextOfMarker(result, MarkerAt(result, j))

\* C19: whatever the result, an original with non-empty text does not come
\* back empty or blank, an empty or blank original comes back as it was, and
\* the positions that hold non-empty text are the same before and after
C19_NonEmptyPositionsKept ==
    ppc = "returned" =>
        /\ DOMAIN aligned = DOMAIN batch_texts
        /\ NonEmptyPositions(aligned) = NonEmptyPositions(batch_texts)
        /\ \A p \in DOMAIN batch_texts :
              p \notin NonEmptyPositions(batch_texts) => aligned[p] = batch_texts[p]

\* C19 witness: the result has a marker line without text in front of an
\* item, and the batch holds a blank and two non-empty originals of which one
\* is translated
C19_Witness ==
    /\ ppc = "returned"
    /\ Cardinality(MarkerLines(result)) > Len(ParsedItems(result))
    /\ Len(ParsedItems(result)) = 1
    /\ Cardinality(NonEmptyPositions(batch_texts)) = 2
    /\ \E p \in DOMAIN batch_texts : batch_texts[p] = <<" ">>
    /\ \E p \in DOMAIN batch_texts : aligned[p] # batch_texts[p]

(***************************************************************************)
(* Properties of the batch scheduler (checked under Spec)                  *)
(***************************************************************************)

\* the part of the output that batch k of the log produced
OutputOf(k) ==
    SubSeq(translated_paragraphs, batch_log[k].start + 1,
           Min(batch_log[k].start + Len(batch_log[k].batch),
               Len(translated_paragraphs)))

\* the batches that have been carried out to the end
Completed == {k \in 1..Len(batch_log) : batch_log[k].outcome # "in_flight"}

\* C3: process_paragraphs returns as many units as it was given and the i-th
\* output unit carries the index of the i-th input unit, whatever the backend
\* returned or raised
C3_LengthAndOrderKept ==
    pc = "done" =>
        /\ Len(translated_paragraphs) = Len(paragraphs)
        /\ \A k \in 1..Len(paragraphs) :
              translated_paragraphs[k].index = paragraphs[k].index

\* C3 witness: a finished run over two units whose indexes have a gap, in
\* which one batch failed and another one was translated
C3_Witness ==
    /\ pc = "done"
    /\ Len(paragraphs) = 2
    /\ \E k \in 1..Len(paragraphs) : paragraphs[k].index # k - 1
    /\ \E k \in 1..Len(batch_log) : batch_log[k].outcome = "failed"
    /\ \E k \in 1..Len(batch_log) :
          /\ batch_log[k].outcome = "translated"
          /\ Texts(OutputOf(k)) # Texts(batch_log[k].batch)

\* C4: a batch whose backend call raised keeps its original texts, the run
\* goes on (the exception does not end it), and at the end every batch has
\* been formed and carried out
C4_FailureIsolated ==
    /\ \A k \in Completed :
          batch_log[k].outcome = "failed" =>
             /\ Texts(OutputOf(k)) = Texts(batch_log[k].batch)
             /\ pc \in {"sleep", "loop", "kickoff", "done", "read"}
    /\ pc = "done" =>
          /\ Completed = 1..Len(batch_log)
          /\ Len(batch_log) = (Len(paragraphs) + batch_size - 1) \div batch_size
          /\ \A k \in 1..Len(batch_log) :
                NonEmptyPositions(Texts(batch_log[k].batch)) # {}
                   => batch_log[k].outcome \in {"translated", "failed"}

\* C4 witness: a finished run in which a batch failed and a later batch was
\* submitted and came back translated
C4_Witness ==
    /\ pc = "done"
    /\ \E k, m \in 1..Len(batch_log) :
          /\ k < m
          /\ batch_log[k].outcome = "failed"
          /\ batch_log[m].outcome = "translated"
          /\ Texts(OutputOf(m)) # Texts(batch_log[m].batch)

\* the calls made for the batch that starts at paragraph `start`
CallsFor(start) ==
    {c \in 1..Len(calls) : calls[c].batch_index = start \div batch_size}

\* C5: the body handed to the backend for a batch holds exactly one entry
\* "{p}. {text}" per unit with non-empty text, p being the unit's 1-based
\* position in the batch, and nothing for the empty units; a batch without
\* non-empty text makes no backend call and its units come back unchanged
C5_PromptBody ==
    \A k \in 1..Len(batch_log) :
        LET texts == Texts(batch_log[k].batch)
            cs == CallsFor(batch_log[k].start)
        IN  IF NonEmptyPositions(texts) = {}
            THEN /\ cs = {}
                 /\ batch_log[k].outcome = "skipped"
                 /\ OutputOf(k) = batch_log[k].batch
            ELSE /\ Cardinality(cs) = 1
                 /\ \A c \in cs :
                       LET entries == Split(calls[c].body, <<"\n", "\n">>)
                       IN  /\ Len(entries) = Cardinality(NonEmptyPositions(texts))
                           /\ \A p \in NonEmptyPositions(texts) :
                                 entries[NonEmptyRank(texts, p)]
                                    = IntToStr(p) \o <<".", " ">> \o texts[p]

\* C5 witness: a call was made for a batch with an empty unit in front of a
\* non-empty one, and another batch without any text was skipped
C5_Witness ==
    /\ \E k \in 1..Len(batch_log) :
          /\ 1 \notin NonEmptyPositions(Texts(batch_log[k].batch))
          /\ 2 \in NonEmptyPositions(Texts(batch_log[k].batch))
          /\ CallsFor(batch_log[k].start) # {}
    /\ \E k \in 1..Len(batch_log) : batch_log[k].outcome = "skipped"

\* C7: the batches are contiguous slices of the input that follow one another
\* without gap or overlap, none is longer than batch_size, only the last may
\* be shorter, and at the end they make up the whole input
C7_BatchesPartitionInput ==
    /\ \A k \in 1..Len(batch_log) :
          LET b == batch_log[k]
          IN  /\ b.batch = SubSeq(paragraphs, b.start + 1, b.start + Len(b.batch))
              /\ b.start = (IF k = 1 THEN 0
                            ELSE batch_log[k - 1].start + Len(batch_log[k - 1].batch))
              /\ Len(b.batch) >= 1
              /\ Len(b.batch) <= batch_size
              /\ k < Len(batch_log) => Len(b.batch) = batch_size
    /\ pc = "done" =>
          (IF batch_log = <<>> THEN 0
           ELSE batch_log[Len(batch_log)].start
                   + Len(batch_log[Len(batch_log)].batch)) = Len(paragraphs)

\* C7 witness: a finished run with a full batch followed by a shorter last one
C7_Witness ==
    /\ pc = "done"
    /\ Len(batch_log) = 2
    /\ Len(batch_log[1].batch) = 2
    /\ Len(batch_log[2].batch) = 1

\* C8: a run on the output of a run whose backend calls all failed, in which
\* the calls fail again, returns the content it was given
C8_DegradedRunIdempotent ==
    (degraded /\ pc = "done" /\ AllCallsFailed)
        => Texts(translated_paragraphs) = Texts(paragraphs)

\* C8 witness: the second run has finished, each of its two calls failed
C8_Witness ==
    /\ degraded
    /\ pc = "done"
    /\ AllCallsFailed
    /\ Cardinality({k \in 1..Len(batch_log) : batch_log[k].outcome = "failed"}) = 2

\* C9: a configuration without target_language runs with "Hindi", and one
\* without batch_size is partitioned with batch size 2
C9_DefaultsApplied ==
    /\ (pc \notin {"start", "configured"} /\ "target_language" \notin DOMAIN config)
          => (pc # "failed" /\ target_language = "Hindi")
    /\ (pc \in {"loop", "kickoff", "sleep", "done"} /\ "batch_size" \notin DOMAIN config)
          => batch_size = 2

\* C13: the batches are carried out one after another in input order: only
\* the last batch of the log can be in flight, and only while its backend call
\* is running; when a later batch has begun, the output of every earlier
\* batch has been appended and the delay after it has elapsed
C13_OneBatchAtATime ==
    \A k \in 1..Len(batch_log) :
       /\ batch_log[k].outcome = "in_flight" => (k = Len(batch_log) /\ pc = "kickoff")
       /\ k < Len(batch_log) =>
             /\ batch_log[k].outcome # "in_flight"
             /\ batch_log[k].start < batch_log[k + 1].start
             /\ Len(translated_paragraphs)
                   >= batch_log[k].start + Len(batch_log[k].batch)
             /\ sleeps >= k

\* C13 witness: the call of the third batch is running after a failed call
\* and a skipped batch, each followed by its delay
C13_Witness ==
    /\ pc = "kickoff"
    /\ Len(batch_log) = 3
    /\ batch_log[1].outcome = "failed"
    /\ batch_log[2].outcome = "skipped"
    /\ batch_log[3].outcome = "in_flight"
    /\ sleeps = 2
    /\ Len(translated_paragraphs) = 2

\* C18: process_paragraphs leaves its input as it was read, and every output
\* unit equals the input unit at its position in every field but text
C18_OnlyTextDiffers ==
    /\ (pc \in {"loop", "kickoff", "sleep", "done"} /\ ~degraded)
          => paragraphs = ReadParagraphs(doc)
    /\ pc \in {"loop", "kickoff", "sleep", "done"} =>
          \A k \in 1..Min(Len(translated_paragraphs), Len(paragraphs)) :
             /\ DOMAIN translated_paragraphs[k] = DOMAIN paragraphs[k]
             /\ \A f \in DOMAIN paragraphs[k] \ {"text"} :
                   translated_paragraphs[k][f] = paragraphs[k][f]

\* C18 witness: a finished run changed the text of a bold, centred heading and
\* of a unit with a picture
C18_Witness ==
    /\ pc = "done"
    /\ Len(translated_paragraphs) = Len(paragraphs)
    /\ \E k \in 1..Len(paragraphs) :
          /\ paragraphs[k].is_bold
          /\ paragraphs[k].alignment = "CENTER"
          /\ paragraphs[k].style_name = "Heading 1"
          /\ translated_paragraphs[k].text # paragraphs[k].text
    /\ \E k \in 1..Len(paragraphs) :
          /\ paragraphs[k].image_data = "rId2"
          /\ translated_paragraphs[k].text # paragraphs[k].text

(***************************************************************************)
(* Properties of the patch-based writer (checked under SpecWriter)         *)
(***************************************************************************)

\* C10: after _update_paragraph_text no run has been removed and every run
\* that held a picture has the content it had before, so that only runs
\* without a picture were cleared or overwritten
C10_PictureRunsUntouched ==
    wpc = "returned" =>
        /\ Len(paragraph) >= Len(original_runs)
        /\ \A k \in DOMAIN original_runs :
              HasPicture(original_runs[k]) => paragraph[k] = original_runs[k]

\* C10 witness: a paragraph with a picture run that carries text, between
\* runs without picture, was updated with non-empty text that replaced text
C10_Witness ==
    /\ wpc = "returned"
    /\ NonEmptyText(trans_para.text)
    /\ \E k \in DOMAIN original_runs :
          HasPicture(original_runs[k]) /\ original_runs[k].text # <<>>
    /\ \E k \in DOMAIN original_runs : paragraph[k] # original_runs[k]

\* the translated unit and the paragraph it is written into agree on whether
\* the paragraph holds a picture, as they do when the unit was read from it
UnitMatchesParagraph ==
    trans_para.has_image = (\E k \in DOMAIN original_runs : HasPicture(original_runs[k]))

\* C17: after _update_paragraph_text with a translated text that is not blank,
\* the text of the runs of the paragraph, joined in order, is the translated
\* text, or the translated text after one space; paragraphs with and without
\* pictures alike
C17_OnlyTranslatedTextRemains ==
    (wpc = "returned" /\ NonEmptyText(trans_para.text) /\ UnitMatchesParagraph)
        => ParagraphText(paragraph)
              \in { trans_para.text, <<" ">> \o trans_para.text }

\* the relationship id of the first picture met when the runs are scanned in
\* order, "None" when no run holds one
RECURSIVE FirstImageOf(_)
FirstImageOf(runs) ==
    IF runs = <<>> THEN "None"
    ELSE IF HasPicture(Head(runs)) THEN Head(runs).pics[1]
    ELSE FirstImageOf(Tail(runs))

\* C15: analyze_paragraph_structure sets image_data to the relationship id of
\* the first embedded image of the paragraph; images of later runs are ignored
C15_FirstImageKept ==
    wpc = "analyzed" =>
        /\ structure.has_image = (\E k \in DOMAIN paragraph : HasPicture(paragraph[k]))
        /\ structure.image_data = FirstImageOf(paragraph)

(***************************************************************************)
(* Properties of run_translation (checked under SpecRun)                   *)
(***************************************************************************)

\* the steps of run_translation in the order of lines 33-52
StepOrder ==
    <<"Read", "Translate", "MergeTables", "AssembleContent", "Write", "Summarized">>

\* C11: run_translation enters its steps in the order Read, Translate,
\* MergeTables, AssembleContent, Write, Summarized, each at most once; when a
\* step raises, the run ends with that exception, no later step is entered,
\* nothing is written and no summary is returned
C11_StepsInOrder ==
    /\ Len(steps) <= Len(StepOrder)
    /\ steps = SubSeq(StepOrder, 1, Min(Len(steps), Len(StepOrder)))
    /\ (pc = "aborted") = (raised # "none")
    /\ raised # "none" =>
          /\ steps # <<>>
          /\ steps[Len(steps)] = raised
          /\ written = Unset
          /\ summary = Unset
    /\ written # Unset => (Len(steps) >= 5 /\ raised = "none")
    /\ summary # Unset => (pc = "summarized" /\ steps = StepOrder /\ written # Unset)

\* C11 witness: the translation step raised at its second batch, after the
\* first batch had been carried out
C11_Witness ==
    /\ pc = "aborted"
    /\ raised = "Translate"
    /\ steps = <<"Read", "Translate">>
    /\ Len(batch_log) = 1
    /\ Len(translated_paragraphs) = 1

\* the tables of a sequence that have at least one row, in order
RECURSIVE TablesWithRows(_)
TablesWithRows(ts) ==
    IF ts = <<>> THEN <<>>
    ELSE (IF Head(ts).rows > 0 THEN <<Head(ts)>> ELSE <<>>)
         \o TablesWithRows(Tail(ts))

C16_WriterStartsFromReadDocument ==
    written # Unset =>
        /\ written.base # NoPath
        /\ UnderWorkingDir(written.base) = UnderWorkingDir(read_path)

====
